---- MODULE Spec2Model ----
(***************************************************************************)
(* A model of scraper.py: the concurrent page fetch of one category        *)
(* (scrape_category_page with fetch_page on a thread pool), the category   *)
(* loop of main, the column selection of save_to_excel and the page URLs.  *)
(*                                                                         *)
(* Python strings that the code takes apart (the category URLs) are        *)
(* sequences of one-character strings; strings the code only passes on     *)
(* (category names, hrefs, titles) are TLA+ strings.                       *)
(***************************************************************************)
EXTENDS Integers, Sequences, FiniteSets

(* ------------------------------------------------------------------ *)
(* Configuration (scraper.py, CONFIGURATION)                           *)
(* ------------------------------------------------------------------ *)
MAX_RETRIES == 3

\* max_pages as main passes it to scrape_category_page
max_pages == 20

\* status_forcelist of the Retry object of create_session
status_forcelist == {500, 502, 504}

\* Pages and pool size of the modelled category batch (the parameters
\* max_pages and workers of scrape_category_page, scaled down)
MaxPages == 3
Workers == 2

\* Pages per category and number of categories of the modelled run of main
MainPages == 1
MaxCategories == 3

\* Largest number of rows handed to save_to_excel
MaxRows == 2

\* The category whose batch is modelled step by step
BatchCategory == 1

\* the suffix ".html"
DotHtml == <<".","h","t","m","l">>

\* CATEGORIES: name and url of each predefined category, in list order
CATEGORIES == <<
  [name |-> "Bollywood Movies",
   url |->
     <<"h","t","t","p","s",":","/","/","s","k","y","m","o","v","i","e","s",
       "h","d",".","m","b","a","/","c","a","t","e","g","o","r","y","/","B",
       "o","l","l","y","w","o","o","d","-","M","o","v","i","e","s",".","h",
       "t","m","l">>],
  [name |-> "South Indian Hindi Dubbed Movies",
   url |->
     <<"h","t","t","p","s",":","/","/","s","k","y","m","o","v","i","e","s",
       "h","d",".","m","b","a","/","c","a","t","e","g","o","r","y","/","S",
       "o","u","t","h","-","I","n","d","i","a","n","-","H","i","n","d","i",
       "-","D","u","b","b","e","d","-","M","o","v","i","e","s",".","h","t",
       "m","l">>],
  [name |-> "Hollywood English Movies",
   url |->
     <<"h","t","t","p","s",":","/","/","s","k","y","m","o","v","i","e","s",
       "h","d",".","m","b","a","/","c","a","t","e","g","o","r","y","/","H",
       "o","l","l","y","w","o","o","d","-","E","n","g","l","i","s","h","-",
       "M","o","v","i","e","s",".","h","t","m","l">>],
  [name |-> "Hollywood Hindi Dubbed Movies",
   url |->
     <<"h","t","t","p","s",":","/","/","s","k","y","m","o","v","i","e","s",
       "h","d",".","m","b","a","/","c","a","t","e","g","o","r","y","/","H",
       "o","l","l","y","w","o","o","d","-","H","i","n","d","i","-","D","u",
       "b","b","e","d","-","M","o","v","i","e","s",".","h","t","m","l">>],
  [name |-> "WWE TV Shows",
   url |->
     <<"h","t","t","p","s",":","/","/","s","k","y","m","o","v","i","e","s",
       "h","d",".","m","b","a","/","c","a","t","e","g","o","r","y","/","W",
       "W","E","-","T","V","-","S","h","o","w","s",".","h","t","m","l">>],
  [name |-> "TV Serial Episodes",
   url |->
     <<"h","t","t","p","s",":","/","/","s","k","y","m","o","v","i","e","s",
       "h","d",".","m","b","a","/","c","a","t","e","g","o","r","y","/","T",
       "V","-","S","e","r","i","a","l","-","E","p","i","s","o","d","e","s",
       ".","h","t","m","l">>],
  [name |-> "Hot Short Film",
   url |->
     <<"h","t","t","p","s",":","/","/","s","k","y","m","o","v","i","e","s",
       "h","d",".","m","b","a","/","c","a","t","e","g","o","r","y","/","H",
       "o","t","-","S","h","o","r","t","-","F","i","l","m",".","h","t","m",
       "l">>],
  [name |-> "All Web Series",
   url |->
     <<"h","t","t","p","s",":","/","/","s","k","y","m","o","v","i","e","s",
       "h","d",".","m","b","a","/","c","a","t","e","g","o","r","y","/","A",
       "l","l","-","W","e","b","-","S","e","r","i","e","s",".","h","t","m",
       "l">>]>>

\* Python's None where a string is expected
None == "None"

(* ------------------------------------------------------------------ *)
(* Page URLs (scrape_category_page, the urls list)                     *)
(* ------------------------------------------------------------------ *)
Range(s) == {s[k] : k \in 1..Len(s)}

\* str.rstrip(chars): drops every trailing character that is one of chars
RECURSIVE rstrip(_, _)
rstrip(s, chars) ==
  IF s # <<>> /\ s[Len(s)] \in Range(chars)
  THEN rstrip(SubSeq(s, 1, Len(s) - 1), chars)
  ELSE s

Digit(d) == <<"0","1","2","3","4","5","6","7","8","9">>[d + 1]

\* f"{i}": the decimal digits of a positive integer
RECURSIVE str(_)
str(i) == IF i < 10 THEN <<Digit(i)>> ELSE str(i \div 10) \o <<Digit(i % 10)>>

\* the url of page i of a category
PageUrl(category_url, i) ==
  IF i = 1 THEN category_url
  ELSE rstrip(category_url, DotHtml) \o <<"/">> \o str(i) \o DotHtml

\* urls = [(i, url) for i in range(1, max_pages + 1)]
urls(category_url, n) == [i \in 1..n |-> <<i, PageUrl(category_url, i)>>]

(* ------------------------------------------------------------------ *)
(* Replies of the site and fetch_page                                  *)
(* ------------------------------------------------------------------ *)
\* html as scrape_category_page sees it: None, or a text; a text is
\* the empty string or a document, given by its <div class="L"
\* align="left"> elements in document order
NoneHtml == [kind |-> "None", nonempty |-> FALSE, divs |-> <<>>]
EmptyStr == [kind |-> "str", nonempty |-> FALSE, divs |-> <<>>]
Doc(divs) == [kind |-> "str", nonempty |-> TRUE, divs |-> divs]

\* a listing div: whether it holds an <a href>, the href and the link text
DivJawan == [a |-> TRUE, href |-> "movie/Jawan.html",
             text |-> "Jawan (2023) Hindi 720p [1.2GB]"]
DivPathaan == [a |-> TRUE, href |-> "movie/Pathaan.html", text |-> "Pathaan"]
DivStub == [a |-> TRUE, href |-> "movie/.html", text |-> ""]
DivNoAnchor == [a |-> FALSE, href |-> "", text |-> ""]

\* the markup a fetched page may hold
Markups ==
  { <<>>,
    <<DivJawan, DivPathaan>>,
    <<DivNoAnchor, DivPathaan, DivStub, DivJawan>> }

Texts == {EmptyStr} \cup {Doc(d) : d \in Markups}

\* what one HTTP exchange gives: a connection or read error, or a response
ConnError == [kind |-> "error", status |-> 0, text |-> EmptyStr]
Response(s, t) == [kind |-> "response", status |-> s, text |-> t]
Replies ==
  {ConnError, Response(404, EmptyStr), Response(500, EmptyStr)}
    \cup {Response(200, t) : t \in Texts}

\* the adapter's Retry retries connection and read errors and the
\* responses whose status is in status_forcelist
Retryable(reply) ==
  reply.kind = "error" \/ reply.status \in status_forcelist

\* session.get: what the call gives for the reply of its last exchange;
\* a retryable reply with no retry left is raised as an error
session_get(reply) == IF Retryable(reply) THEN ConnError ELSE reply

\* Response.raise_for_status raises for the 4xx and 5xx statuses
RaisesForStatus(r) == r.status >= 400 /\ r.status < 600

\* fetch_page without its try/except: an error leaves the task
fetch_page_unhandled(url, reply) ==
  LET r == session_get(reply) IN
  IF r.kind = "error" \/ RaisesForStatus(r)
  THEN [raised |-> TRUE, warned |-> FALSE, url |-> url, html |-> NoneHtml]
  ELSE [raised |-> FALSE, warned |-> FALSE, url |-> url, html |-> r.text]

\* fetch_page: (url, r.text), or a warning and (url, None) on any error
fetch_page(url, reply) ==
  LET r == session_get(reply) IN
  IF r.kind = "error" \/ RaisesForStatus(r)
  THEN [raised |-> FALSE, warned |-> TRUE, url |-> url, html |-> NoneHtml]
  ELSE [raised |-> FALSE, warned |-> FALSE, url |-> url, html |-> r.text]

(* ------------------------------------------------------------------ *)
(* Parsing a page and assembling the category result                   *)
(* ------------------------------------------------------------------ *)
BASE_URL == "https://skymovieshd.mba"

\* urljoin(BASE_URL, href) for the relative hrefs of the listing
urljoin(base, href) == <<base, "/", href>>

\* extract_movie_info on the link texts of the modelled listing
extract_movie_info(title_text) ==
  IF title_text = "Jawan (2023) Hindi 720p [1.2GB]"
  THEN [title |-> "Jawan Hindi", year |-> "2023", quality |-> "720p",
        language |-> "Hindi", file_size |-> "1.2GB"]
  ELSE [title |-> title_text, year |-> None, quality |-> None,
        language |-> None, file_size |-> None]

MovieRecord(category_name, div) ==
  LET info == extract_movie_info(div.text) IN
  [category |-> category_name, title |-> info.title, year |-> info.year,
   quality |-> info.quality, language |-> info.language,
   file_size |-> info.file_size,
   download_url |-> urljoin(BASE_URL, div.href), full_title |-> div.text]

\* the inner loop over soup.find_all: divs without a link and the
\* 'movie/.html' placeholder are skipped, the rest appended in order
RECURSIVE parse_page(_, _)
parse_page(category_name, divs) ==
  IF divs = <<>> THEN <<>>
  ELSE LET div == Head(divs) IN
       IF ~div.a \/ div.href = "movie/.html"
       THEN parse_page(category_name, Tail(divs))
       ELSE <<MovieRecord(category_name, div)>>
              \o parse_page(category_name, Tail(divs))

\* Python's "not html"
Falsy(html) == html.kind = "None" \/ ~html.nonempty

\* the body of the as_completed loop for one completed future
collect(results, page_num, html, category_name) ==
  IF Falsy(html) THEN results
  ELSE Append(results, <<page_num, parse_page(category_name, html.divs)>>)

\* page_results.sort(key=lambda x: x[0]): a stable sort on the page number
RECURSIVE InsertByPage(_, _)
InsertByPage(e, s) ==
  IF s = <<>> THEN <<e>>
  ELSE IF e[1] <= s[1][1] THEN <<e>> \o s
  ELSE <<s[1]>> \o InsertByPage(e, Tail(s))

RECURSIVE SortByPage(_)
SortByPage(s) ==
  IF s = <<>> THEN <<>> ELSE InsertByPage(Head(s), SortByPage(Tail(s)))

\* for page_num, page_movies in page_results: movies.extend(page_movies)
RECURSIVE Flatten(_)
Flatten(s) == IF s = <<>> THEN <<>> ELSE Head(s)[2] \o Flatten(Tail(s))

\* flattening in completion order, the sort left out
assemble_unsorted(results) == Flatten(results)

\* "Sort by page number and flatten"
assemble(results) == Flatten(SortByPage(results))

\* scrape_category_page as a whole, for the reply each page's fetch ends
\* with and the order in which the fetches complete
RECURSIVE CollectAll(_, _, _, _)
CollectAll(order, us, res, category_name) ==
  IF order = <<>> THEN <<>>
  ELSE LET k == order[Len(order)] IN
       collect(CollectAll(SubSeq(order, 1, Len(order) - 1), us, res,
                          category_name),
               us[k][1], res[k].html, category_name)

scrape_category_page(category_name, category_url, n, replies, order) ==
  LET us == urls(category_url, n)
      res == [k \in 1..Len(us) |-> fetch_page(us[k][2], replies[k])]
  IN [raised |-> \E k \in 1..Len(us) : res[k].raised,
      movies |-> assemble(CollectAll(order, us, res, category_name)),
      warned |-> {res[k].url : k \in {j \in 1..Len(us) : res[j].warned}}]

(* ------------------------------------------------------------------ *)
(* save_to_excel: the columns of the sheet                             *)
(* ------------------------------------------------------------------ *)
columns ==
  <<"category", "title", "year", "quality", "language", "genre",
    "file_size", "release_date", "stars", "download_url", "poster_url",
    "full_title">>

\* pd.DataFrame(data).columns: every key of every row
DataFrameColumns(rows) == UNION {DOMAIN rows[i] : i \in 1..Len(rows)}

\* every listed column, present in the rows or not
SelectColumnsUnfiltered(dfcols) == columns

\* df[[col for col in columns if col in df.columns]]
SelectColumns(dfcols) == SelectSeq(columns, LAMBDA col : col \in dfcols)

\* the header row save_to_excel writes for the rows it is given
save_to_excel(rows) == SelectColumns(DataFrameColumns(rows))

\* all_movies = movies
extend_replacing(all, new) == new

\* all_movies.extend(movies)
extend(all, new) == all \o new

(* ------------------------------------------------------------------ *)
(* State                                                               *)
(* ------------------------------------------------------------------ *)
VARIABLES
  pc,            \* where scrape_category_page stands
  category,      \* index in CATEGORIES of the category being scraped
  page_count,    \* the max_pages argument
  url_list,      \* the urls list
  futures,       \* the submitted fetch tasks, in submission order
  yielded,       \* the futures as_completed has handed to the loop
  page_results,  \* (page_num, page_movies) in completion order
  movies,        \* the list scrape_category_page returns
  log,           \* urls for which fetch_page logged a warning
  mpc,           \* where main stands
  idx,           \* main's loop index, 1-based as enumerate(CATEGORIES, 1)
  scraped,       \* names main has called scrape_category_page for, in order
  all_movies,    \* main's accumulated records
  data,          \* the rows handed to save_to_excel
  written        \* the header row of the sheet save_to_excel wrote

vars == <<pc, category, page_count, url_list, futures, yielded,
          page_results, movies, log, mpc, idx, scraped, all_movies, data,
          written>>

batchVars == <<pc, category, page_count, url_list, futures, yielded,
               page_results, movies>>
mainVars == <<mpc, idx, scraped, all_movies>>
excelVars == <<data, written>>

(* ------------------------------------------------------------------ *)
(* scrape_category_page, step by step                                  *)
(* ------------------------------------------------------------------ *)
NoResult ==
  [raised |-> FALSE, warned |-> FALSE, url |-> <<>>, html |-> NoneHtml]

\* executor.submit(fetch_page, session, url) for one entry of urls
NewFuture(u) ==
  [page_num |-> u[1], url |-> u[2], state |-> "pending", retries |-> 0,
   result |-> NoResult]

Running(fs) == {k \in 1..Len(fs) : fs[k].state = "running"}

\* a pool without a limit
HasIdleWorkerAlways(fs) == TRUE

\* ThreadPoolExecutor(max_workers=workers): a queued task starts only
\* while fewer than workers tasks run
HasIdleWorker(fs) == Cardinality(Running(fs)) < Workers

\* the loop taking the futures as submitted, finished or not
ReadyOrNot(f) == TRUE

\* as_completed hands over a future once it has finished
Ready(f) == f.state = "finished"

BatchIdle ==
  /\ pc = "idle"
  /\ category = 0
  /\ page_count = 0
  /\ url_list = <<>>
  /\ futures = <<>>
  /\ yielded = {}
  /\ page_results = <<>>
  /\ movies = <<>>

BatchInit ==
  /\ pc = "urls"
  /\ category = BatchCategory
  /\ page_count = MaxPages
  /\ url_list = <<>>
  /\ futures = <<>>
  /\ yielded = {}
  /\ page_results = <<>>
  /\ movies = <<>>

\* urls = [(i, ...) for i in range(1, max_pages + 1)]
BuildUrls ==
  /\ pc = "urls"
  /\ url_list' = urls(CATEGORIES[category].url, page_count)
  /\ pc' = "submit"
  /\ UNCHANGED <<category, page_count, futures, yielded, page_results,
                 movies, log>>
  /\ UNCHANGED <<mainVars, excelVars>>

\* the dict comprehension: one submit per entry of urls, in order
Submit ==
  /\ pc = "submit"
  /\ LET k == Len(futures) + 1
     IN /\ futures' = Append(futures, NewFuture(url_list[k]))
        /\ pc' = IF k = Len(url_list) THEN "collect" ELSE "submit"
  /\ UNCHANGED <<category, page_count, url_list, yielded, page_results,
                 movies, log>>
  /\ UNCHANGED <<mainVars, excelVars>>

\* a pool thread takes the oldest queued task
Start(k) ==
  /\ futures[k].state = "pending"
  /\ \A j \in 1..(k - 1) : futures[j].state # "pending"
  /\ HasIdleWorker(futures)
  /\ futures' = [futures EXCEPT ![k].state = "running",
                                ![k].retries = MAX_RETRIES]
  /\ UNCHANGED <<pc, category, page_count, url_list, yielded,
                 page_results, movies, log>>
  /\ UNCHANGED <<mainVars, excelVars>>

\* a fetch task that appends its own result to page_results
AttemptAppending(k) ==
  /\ futures[k].state = "running"
  /\ \E reply \in Replies :
       IF Retryable(reply) /\ futures[k].retries > 0
       THEN /\ futures' = [futures EXCEPT ![k].retries = @ - 1]
            /\ log' = log
            /\ page_results' = page_results
       ELSE LET res == fetch_page(futures[k].url, reply) IN
            /\ futures' = [futures EXCEPT ![k].state = "finished",
                                          ![k].retries = 0,
                                          ![k].result = res]
            /\ log' = IF res.warned THEN log \cup {res.url} ELSE log
            /\ page_results' =
                 collect(page_results, futures[k].page_num, res.html,
                         CATEGORIES[category].name)
  /\ UNCHANGED <<pc, category, page_count, url_list, yielded, movies>>
  /\ UNCHANGED <<mainVars, excelVars>>

\* one HTTP exchange of a running fetch_page: the adapter retries a
\* retryable reply while Retry.total lasts; otherwise session.get
\* returns or raises and fetch_page finishes
Attempt(k) ==
  /\ futures[k].state = "running"
  /\ \E reply \in Replies :
       IF Retryable(reply) /\ futures[k].retries > 0
       THEN /\ futures' = [futures EXCEPT ![k].retries = @ - 1]
            /\ log' = log
       ELSE LET res == fetch_page(futures[k].url, reply) IN
            /\ futures' = [futures EXCEPT ![k].state = "finished",
                                          ![k].retries = 0,
                                          ![k].result = res]
            /\ log' = IF res.warned THEN log \cup {res.url} ELSE log
  /\ UNCHANGED <<pc, category, page_count, url_list, yielded,
                 page_results, movies>>
  /\ UNCHANGED <<mainVars, excelVars>>

\* one round of "for future in as_completed(futures)"
Collect(k) ==
  /\ pc = "collect"
  /\ k \notin yielded
  /\ Ready(futures[k])
  /\ yielded' = yielded \cup {k}
  /\ IF futures[k].result.raised
     THEN /\ pc' = "raising"
          /\ page_results' = page_results
     ELSE /\ pc' = pc
          /\ page_results' =
               collect(page_results, futures[k].page_num,
                       futures[k].result.html, CATEGORIES[category].name)
  /\ UNCHANGED <<category, page_count, url_list, futures, movies, log>>
  /\ UNCHANGED <<mainVars, excelVars>>

\* leaving the with block waits for every task (shutdown(wait=True));
\* then the results are sorted and flattened and the list returned, or
\* the exception of future.result() leaves the function
Return ==
  /\ pc \in {"collect", "raising"}
  /\ pc = "collect" => yielded = 1..Len(futures)
  /\ \A k \in 1..Len(futures) : futures[k].state = "finished"
  /\ IF pc = "raising"
     THEN /\ pc' = "raised"
          /\ movies' = movies
     ELSE /\ pc' = "done"
          /\ movies' = assemble(page_results)
  /\ UNCHANGED <<category, page_count, url_list, futures, yielded,
                 page_results, log>>
  /\ UNCHANGED <<mainVars, excelVars>>

MainIdle ==
  /\ mpc = "idle"
  /\ idx = 0
  /\ scraped = <<>>
  /\ all_movies = <<>>

ExcelIdle ==
  /\ data = <<>>
  /\ written = <<>>

Init == BatchInit /\ log = {} /\ MainIdle /\ ExcelIdle

Next ==
  \/ BuildUrls
  \/ Submit
  \/ \E k \in 1..Len(futures) : Start(k)
  \/ \E k \in 1..Len(futures) : Attempt(k)
  \/ \E k \in 1..Len(futures) : Collect(k)
  \/ Return

Spec == Init /\ [][Next]_vars

\* every thread that can take a step eventually takes one, and every
\* request returns or times out
LiveSpec == Spec /\ WF_vars(Next)

(* ------------------------------------------------------------------ *)
(* The urls list alone, for every category and page count              *)
(* ------------------------------------------------------------------ *)
UrlInit ==
  /\ pc = "urls"
  /\ category \in 1..Len(CATEGORIES)
  /\ page_count \in 1..max_pages
  /\ url_list = <<>>
  /\ futures = <<>>
  /\ yielded = {}
  /\ page_results = <<>>
  /\ movies = <<>>
  /\ log = {}
  /\ MainIdle
  /\ ExcelIdle

UrlSpec == UrlInit /\ [][BuildUrls]_vars

(* ------------------------------------------------------------------ *)
(* main: the loop over the categories and the export                   *)
(* ------------------------------------------------------------------ *)
\* len(CATEGORIES), cut to the modelled prefix of the list
NumCategories ==
  IF MaxCategories < Len(CATEGORIES) THEN MaxCategories ELSE Len(CATEGORIES)

CompletionOrders(n) ==
  {s \in [1..n -> 1..n] : \A i, j \in 1..n : i # j => s[i] # s[j]}

MainInit ==
  /\ mpc = "loop"
  /\ idx = 1
  /\ scraped = <<>>
  /\ all_movies = <<>>
  /\ log = {}
  /\ BatchIdle
  /\ ExcelIdle

\* one round of "for idx, category in enumerate(CATEGORIES, 1)"
ScrapeCategory ==
  /\ mpc = "loop"
  /\ \E replies \in [1..MainPages -> Replies],
        order \in CompletionOrders(MainPages) :
       LET c == CATEGORIES[idx]
           r == scrape_category_page(c.name, c.url, MainPages, replies,
                                     order)
       IN /\ scraped' = Append(scraped, c.name)
          /\ log' = log \cup r.warned
          /\ IF r.raised
             THEN /\ mpc' = "error"
                  /\ idx' = idx
                  /\ all_movies' = all_movies
             ELSE /\ mpc' = IF idx = NumCategories
                            THEN "checkpoint3" ELSE "loop"
                  /\ idx' = idx + 1
                  /\ all_movies' = extend(all_movies, r.movies)
  /\ UNCHANGED <<batchVars, excelVars>>

\* CHECKPOINT 3 with movies: save_to_excel(all_movies, OUTPUT_FILE)
SaveToExcel ==
  /\ mpc = "checkpoint3"
  /\ all_movies # <<>>
  /\ data' = all_movies
  /\ written' = save_to_excel(all_movies)
  /\ mpc' = "done"
  /\ UNCHANGED <<batchVars, log, idx, scraped, all_movies>>

\* CHECKPOINT 3 without: "No movies found"
NoMoviesFound ==
  /\ mpc = "checkpoint3"
  /\ all_movies = <<>>
  /\ mpc' = "done"
  /\ UNCHANGED <<batchVars, log, idx, scraped, all_movies, excelVars>>

MainNext == ScrapeCategory \/ SaveToExcel \/ NoMoviesFound

MainSpec == MainInit /\ [][MainNext]_vars

(* ------------------------------------------------------------------ *)
(* save_to_excel alone, for rows with any keys                         *)
(* ------------------------------------------------------------------ *)
\* keys a row may hold: some of the listed columns and one that is not
InputKeys == {"title", "genre", "poster_url", "full_title", "rating"}

Rows == {[k \in K |-> "x"] : K \in SUBSET InputKeys}

RowLists == UNION {[1..n -> Rows] : n \in 1..MaxRows}

ExcelInit ==
  /\ mpc = "save_to_excel"
  /\ data \in RowLists
  /\ written = <<>>
  /\ idx = 0
  /\ scraped = <<>>
  /\ all_movies = <<>>
  /\ log = {}
  /\ BatchIdle

SaveRows ==
  /\ mpc = "save_to_excel"
  /\ written' = save_to_excel(data)
  /\ mpc' = "done"
  /\ UNCHANGED <<batchVars, log, idx, scraped, all_movies, data>>

ExcelSpec == ExcelInit /\ [][SaveRows]_vars

(* ------------------------------------------------------------------ *)
(* Properties                                                          *)
(* ------------------------------------------------------------------ *)
Submitted == 1..Len(futures)

Finished(k) == futures[k].state = "finished"

\* the fetch of future k ended in (url, None)
Failed(k) == Finished(k) /\ futures[k].result.html.kind = "None"

\* the fetch of future k ended in (url, r.text)
Fetched(k) == Finished(k) /\ futures[k].result.html.kind = "str"

\* the records the markup of a fetched page holds
Listed(k) ==
  parse_page(CATEGORIES[category].name, futures[k].result.html.divs)

\* the page_movies recorded for page index i, empty when none is
RecordedFor(i) ==
  LET S == {j \in 1..Len(page_results) : page_results[j][1] = i}
  IN IF S = {} THEN <<>> ELSE page_results[CHOOSE j \in S : TRUE][2]

RECURSIVE ConcatPages(_)
ConcatPages(n) ==
  IF n = 0 THEN <<>> ELSE ConcatPages(n - 1) \o RecordedFor(n)

\* C1: whatever the order in which the fetches completed, the list
\* scrape_category_page returns is the per-page record lists joined in
\* ascending page index, each in the order parsed.
C1_OutputInPageOrder ==
  pc = "done" => movies = ConcatPages(page_count)

\* a batch that completed out of page order, with different records
W1_CompletedOutOfOrder ==
  /\ pc = "done"
  /\ \E j \in 1..(Len(page_results) - 1) :
       /\ page_results[j][1] > page_results[j + 1][1]
       /\ page_results[j][2] # <<>>
       /\ page_results[j + 1][2] # <<>>
       /\ page_results[j][2] # page_results[j + 1][2]

\* C2: a page is given up only after MAX_RETRIES attempts have failed.
C2_AbandonedAfterMaxRetries ==
  [][\A k \in Submitted :
       (/\ futures[k].state = "running"
        /\ futures'[k].state = "finished"
        /\ futures'[k].result.html.kind = "None")
       => (MAX_RETRIES - futures[k].retries) + 1 = MAX_RETRIES]_vars

Count(s, r) == Cardinality({i \in 1..Len(s) : s[i] = r})

RECURSIVE ListedCount(_, _)
ListedCount(n, r) ==
  IF n = 0 THEN 0
  ELSE ListedCount(n - 1, r)
         + (IF Fetched(n) THEN Count(Listed(n), r) ELSE 0)

\* C3: a failed page raises nothing out of scrape_category_page and
\* adds no record; every record of every fetched page is in the result,
\* as often as the fetched pages list it.
C3_FailedPageExcluded ==
  /\ pc \notin {"raising", "raised"}
  /\ pc = "done" =>
       \A r \in Range(movies) \cup
                UNION {Range(Listed(k)) : k \in {j \in Submitted : Fetched(j)}} :
         Count(movies, r) = ListedCount(Len(futures), r)

\* a finished batch with a failed page and a fetched page with records
W3_FailedAmongFetched ==
  /\ pc = "done"
  /\ \E k \in Submitted : Failed(k)
  /\ \E k \in Submitted : Fetched(k) /\ Listed(k) # <<>>

\* C4: one task per page index 1..N, none skipped or doubled, and never
\* more than Workers fetches running at once.
C4_OneTaskPerPageBoundedPool ==
  /\ \A j, k \in Submitted :
       j # k => futures[j].page_num # futures[k].page_num
  /\ \A k \in Submitted : futures[k].page_num \in 1..page_count
  /\ pc \notin {"urls", "submit"} =>
       {futures[k].page_num : k \in Submitted} = 1..page_count
  /\ Cardinality(Running(futures)) <= Workers

\* the pool is full while a submitted page still waits
W4_PoolFullTaskQueued ==
  /\ pc = "collect"
  /\ Cardinality(Running(futures)) = Workers
  /\ \E k \in Submitted : futures[k].state = "pending"

\* C5: the batch returns, and only after every submitted fetch has
\* settled and been consumed; a future is consumed only once finished.
C5_RunsToCompletion ==
  /\ [](\A k \in yielded : Finished(k))
  /\ [](pc = "done" =>
          /\ Len(futures) = page_count
          /\ yielded = Submitted
          /\ \A k \in Submitted : Finished(k))
  /\ <>(pc = "done")

\* a returned batch: every page submitted and consumed, one of them
\* given up
W5_ReturnedAfterAllSettled ==
  /\ pc = "done"
  /\ Len(futures) = page_count
  /\ yielded = Submitted
  /\ \E k \in Submitted : Failed(k)

\* a step of a worker thread: a future changes, none is added
WorkerStep ==
  /\ futures' # futures
  /\ Len(futures') = Len(futures)

NoLostOrDoubledResult ==
  /\ \A i, j \in 1..Len(page_results) :
       i # j => page_results[i][1] # page_results[j][1]
  /\ {page_results[j][1] : j \in 1..Len(page_results)} =
       {futures[k].page_num :
          k \in {j \in yielded : ~Falsy(futures[j].result.html)}}

\* C6 as stated: a worker step writes nothing but its own future (the
\* network client aside), and no page result is lost or doubled.
C6_WorkersShareNothing ==
  /\ [][WorkerStep =>
          /\ UNCHANGED <<page_results, yielded, movies, log>>
          /\ Cardinality({k \in Submitted : futures'[k] # futures[k]}) = 1]_vars
  /\ []NoLostOrDoubledResult

\* C6 amended: a worker step writes its own future and the log only;
\* page_results is written by the collecting loop alone, one entry per
\* consumed page with text, so none is lost or doubled.
C6_WorkersShareOnlyLog ==
  /\ [][WorkerStep =>
          /\ UNCHANGED <<page_results, yielded, movies>>
          /\ Cardinality({k \in Submitted : futures'[k] # futures[k]}) = 1]_vars
  /\ [][page_results' # page_results =>
          /\ pc = "collect"
          /\ futures' = futures
          /\ Len(page_results') = Len(page_results) + 1]_vars
  /\ []NoLostOrDoubledResult

\* results of two pages collected while another fetch is still running
W6_CollectedWhileRunning ==
  /\ Len(page_results) >= 2
  /\ \E k \in Submitted : futures[k].state = "running"

MainUrls(c) == {PageUrl(CATEGORIES[c].url, i) : i \in 1..MainPages}

CategoryNames(n) == [c \in 1..n |-> CATEGORIES[c].name]

IsPrefix(s, t) == Len(s) <= Len(t) /\ SubSeq(t, 1, Len(s)) = s

\* C7: main scrapes every category once, in list order, whatever the
\* categories before gave; a category whose pages all fail gives no
\* record and a warning per page, and the records gathered so far stay.
C7_FailedCategoryNotFatal ==
  /\ [](mpc # "error")
  /\ [](scraped = CategoryNames(idx - 1))
  /\ [](mpc \in {"checkpoint3", "done"} =>
          scraped = CategoryNames(NumCategories))
  /\ [][mpc = "loop" =>
          /\ idx' = idx + 1
          /\ IsPrefix(all_movies, all_movies')
          /\ MainUrls(idx) \subseteq log' => all_movies' = all_movies]_vars

\* main is through: the first category failed on every page, a later
\* one gave records
W7_FirstCategoryFailed ==
  /\ mpc = "done"
  /\ MainUrls(1) \subseteq log
  /\ all_movies # <<>>
  /\ scraped = CategoryNames(NumCategories)

\* the fixed column set as the specification lists it
ListedColumns ==
  <<"category", "title", "year", "quality", "language", "genre",
    "file_size", "release_date", "stars", "download_url", "full_title">>

\* the same with poster_url, before full_title
ListedColumnsAndPoster ==
  <<"category", "title", "year", "quality", "language", "genre",
    "file_size", "release_date", "stars", "download_url", "poster_url",
    "full_title">>

Position(s, x) == CHOOSE i \in 1..Len(s) : s[i] = x

\* the header is exactly the members of fixed that the rows hold, each
\* once, in the order of fixed
WrittenFrom(fixed) ==
  /\ Range(written) = Range(fixed) \cap DataFrameColumns(data)
  /\ \A i, j \in 1..Len(written) :
       i < j => Position(fixed, written[i]) < Position(fixed, written[j])

\* C9 as stated: the columns written are the members of the eleven
\* listed columns present in the data, in that order, and no other.
C9_ColumnsFromListedSet ==
  mpc = "done" => WrittenFrom(ListedColumns)

\* C9 amended: the same for the twelve columns with poster_url.
C9_ColumnsFromListedSetAndPoster ==
  mpc = "done" => WrittenFrom(ListedColumnsAndPoster)

\* rows with poster_url and a key outside the list, without genre
W9_PosterWritten ==
  /\ mpc = "done"
  /\ Len(written) >= 2
  /\ "poster_url" \in Range(written)
  /\ "rating" \in DataFrameColumns(data)
  /\ "genre" \notin DataFrameColumns(data)

\* s without its trailing ".html"
WithoutExtension(s) ==
  IF Len(s) >= Len(DotHtml)
       /\ SubSeq(s, Len(s) - Len(DotHtml) + 1, Len(s)) = DotHtml
  THEN SubSeq(s, 1, Len(s) - Len(DotHtml))
  ELSE s

\* C10: page 1 is fetched from the category url, page i >= 2 from the
\* category url with only ".html" removed, then "/", i and ".html".
C10_PageUrlKeepsSlug ==
  pc = "submit" =>
    \A i \in 1..page_count :
      url_list[i] =
        <<i, IF i = 1 THEN CATEGORIES[category].url
             ELSE WithoutExtension(CATEGORIES[category].url)
                    \o <<"/">> \o str(i) \o DotHtml>>

====
